---- MODULE Spec2Model ----
(***************************************************************************)
(* Model of load_dataset.py: the dataset-name resolver, the DLIBDataset    *)
(* container (__init__, load_dataset, __len__, __getitem__), the factories *)
(* get_dataset / get_loader, and the per-worker copies of the container    *)
(* that a DataLoader with num_workers > 0 iterates over.                   *)
(***************************************************************************)
EXTENDS Integers, Sequences, FiniteSets, TLC

\* ------------------------------------------------------------------ bounds

\* Successful and rejected __getitem__ calls are logged per dataset object;
\* at most MaxGets calls are made on one object.
MaxGets == 3
\* Shape of a raw observation (height x width x channels), chosen so that a
\* wrong axis order changes the shape or moves a value.
Height == 1
Width == 2
Channels == 2
\* Largest num_workers handed to get_loader.
MaxWorkers == 2

\* Default batch size of get_loader.
DefaultBatchSize == 32

\* ------------------------------------------------------------------ inputs

\* Python's None for the optional `name` argument is the empty option <<>>;
\* an explicit string s is <<s>>.
None == <<>>
Some(s) == <<s>>

\* Names the external registry knows.
KnownNames == {"cars3d", "dsprites_full"}
\* Strings tried as explicit names: a known one, the empty string, an unknown one.
ExplicitNames == {"cars3d", "", "bogus"}
NameArgs == {None} \cup {Some(s) : s \in ExplicitNames}
\* Values of AICROWD_DATASET_NAME when it is set.
EnvNames == {"", "dsprites_full"}
Seeds == {0, 1}
IteratorLens == {-1, 0, 1, 2}
Items == {-1, 0, 1, 2}
\* The dataset objects a run may construct.
Cids == {1, 2}
\* Inputs of the runs that construct two containers.
PairNames == {"cars3d", "dsprites_full"}
PairLens == {2}
PairItems == {0, 1}
\* Inputs of the runs with worker processes.
WorkerLens == {0, 2}
WorkerItems == {0, 1}

\* ------------------------------------------------------------------ state

VARIABLES
    environ,   \* os.environ: a function from the variable names that are set
    ds,        \* ds[c]: <<>> or <<the DLIBDataset object c>>
    call,      \* call[c]: <<>> or <<the construction call made for c>>
    counters,  \* counters[c]: __init__ runs, registry lookups, observations drawn,
               \* __getitem__ calls rejected
    out,       \* out[c]: the log of __getitem__ calls on object c
    loader,    \* loader[c]: <<>> or <<the DataLoader built around object c>>
    workers,   \* workers[c]: the worker processes of loader c (a sequence)
    last       \* the last operation and how it ended

vars == <<environ, ds, call, counters, out, loader, workers, last>>

Obj(c) == ds[c][1]

\* ------------------------------------------------------------------ module import (lines 6-10)

DefaultDataRoot == "scratch/dataset"

\* `if 'DISENTANGLEMENT_LIB_DATA' not in os.environ: os.environ.update(...)`
ImportModule(env) ==
    IF "DISENTANGLEMENT_LIB_DATA" \in DOMAIN env
    THEN env
    ELSE [k \in DOMAIN env \cup {"DISENTANGLEMENT_LIB_DATA"} |->
            IF k = "DISENTANGLEMENT_LIB_DATA" THEN DefaultDataRoot ELSE env[k]]

\* os.getenv(key, default)
getenv(env, key, default) ==
    IF key \in DOMAIN env THEN env[key] ELSE default

\* Variant: `os.getenv("AICROWD_DATASET_NAME") or "cars3d"`, which treats an
\* empty value like an unset variable.
get_dataset_name_or_default(env) ==
    IF "AICROWD_DATASET_NAME" \in DOMAIN env /\ env["AICROWD_DATASET_NAME"] # ""
    THEN env["AICROWD_DATASET_NAME"]
    ELSE "cars3d"

\* get_dataset_name()
get_dataset_name(env) == getenv(env, "AICROWD_DATASET_NAME", "cars3d")

\* `name = get_dataset_name() if name is None else name`
ResolveName(name, env) ==
    IF name = None THEN get_dataset_name(env) ELSE name[1]

\* ------------------------------------------------------------------ external collaborators

\* get_named_ground_truth_data(name): the generator for a known name.
get_named_ground_truth_data(name) == [name |-> name]

\* np.random.RandomState(seed): the stream selected by the seed, at its start.
\* The state of the stream is the seed and the number of draws consumed.
RandomState(seed) == [seed |-> seed, pos |-> 0]

\* One observation of the generator: an uninterpreted function of the
\* generator, the stream and the position in the stream, laid out
\* height x width x channels.
Observation(dataset, random_state) ==
    [h \in 1..Height |-> [w \in 1..Width |-> [c \in 1..Channels |->
        <<dataset.name, random_state.seed, random_state.pos, h, w, c>>]]]

\* dataset.sample_observations(num, random_state): num observations, each
\* consuming one draw of the stream.
sample_observations(dataset, num, random_state) ==
    [observations |-> [k \in 1..num |->
        Observation(dataset, [random_state EXCEPT !.pos = @ + (k - 1)])],
     random_state |-> [random_state EXCEPT !.pos = @ + num]]

\* ------------------------------------------------------------------ numpy / torch helpers

Shape(a) == <<Len(a), Len(a[1]), Len(a[1][1])>>

\* Position (1-based) of axis n in the sequence axes.
IndexOf(axes, n) == CHOOSE k \in 1..Len(axes) : axes[k] = n

\* a.transpose(axes): axis k of the result is axis axes[k] of a (axes 0-based).
transpose(a, axes) ==
    LET shape == Shape(a)
        At(i) == LET j == [n \in 1..3 |-> i[IndexOf(axes, n - 1)]]
                 IN a[j[1]][j[2]][j[3]]
    IN [i1 \in 1..shape[axes[1] + 1] |->
         [i2 \in 1..shape[axes[2] + 1] |->
           [i3 \in 1..shape[axes[3] + 1] |-> At(<<i1, i2, i3>>)]]]

\* Variant: np.transpose(a), which reverses the axes (HWC -> CWH).
moveaxis_reversed(a, source, destination) == transpose(a, <<2, 1, 0>>)

\* np.moveaxis(a, source, destination) on a 3-d array: the other axes keep
\* their order and `source` is inserted at position `destination`.
moveaxis(a, source, destination) ==
    LET Keep(n) == n # source
        rest == SelectSeq(<<0, 1, 2>>, Keep)
        order == SubSeq(rest, 1, destination) \o <<source>>
                    \o SubSeq(rest, destination + 1, Len(rest))
    IN transpose(a, order)

\* torch.from_numpy(a): a tensor over the same values with the same shape.
from_numpy(a) == [type |-> "torch.Tensor", shape |-> Shape(a), data |-> a]

\* ------------------------------------------------------------------ DLIBDataset (lines 21-60)

\* load_dataset(self): the registry lookup; an unknown name makes the registry
\* raise, and the exception propagates unchanged.
load_dataset(self) ==
    IF self.name \in KnownNames
    THEN [raised |-> "", dataset |-> <<get_named_ground_truth_data(self.name)>>, lookups |-> 1]
    ELSE [raised |-> "LookupFailure", dataset |-> <<>>, lookups |-> 1]

\* DLIBDataset.__init__(self, name, seed, iterator_len): the fields are set in
\* source order and the generator is looked up last.  No argument is checked.
init(name, seed, iterator_len) ==
    LET partial == [name |-> name, seed |-> seed,
                    random_state |-> RandomState(seed),
                    iterator_len |-> iterator_len]
        loaded == load_dataset(partial)
    IN IF loaded.raised # ""
       THEN [raised |-> loaded.raised, self |-> <<>>, lookups |-> loaded.lookups]
       ELSE [raised |-> "",
             self |-> <<[name |-> name, seed |-> seed,
                         random_state |-> partial.random_state,
                         iterator_len |-> iterator_len,
                         dataset |-> loaded.dataset[1]]>>,
             lookups |-> loaded.lookups]

\* Variant: the number of samples left in the epoch.
len_remaining(self) == self.iterator_len - self.random_state.pos

\* DLIBDataset.__len__(self)
len(self) == self.iterator_len

\* The sample returned for a raw observation.
Returned(item, output) ==
    [item |-> item, sample |-> from_numpy(moveaxis(output, 2, 0))]

\* Variant: index-deterministic access, the observation at position `item`
\* of the stream.
getitem_indexed(self, item) ==
    IF ~(item < self.iterator_len)
    THEN [raised |-> "AssertionError", self |-> self, ret |-> <<>>, raw |-> <<>>,
          draws |-> 0, lookups |-> 0]
    ELSE LET output == Observation(self.dataset, [self.random_state EXCEPT !.pos = item])
         IN [raised |-> "", self |-> self, ret |-> <<Returned(item, output)>>,
             raw |-> <<output>>, draws |-> 1, lookups |-> 0]

\* Variant: `sample_observations(2, ...)[0]`, two draws per call.
getitem_two_draws(self, item) ==
    IF ~(item < self.iterator_len)
    THEN [raised |-> "AssertionError", self |-> self, ret |-> <<>>, raw |-> <<>>,
          draws |-> 0, lookups |-> 0]
    ELSE LET drawn == sample_observations(self.dataset, 2, self.random_state)
             output == drawn.observations[1]
         IN [raised |-> "",
             self |-> [self EXCEPT !.random_state = drawn.random_state],
             ret |-> <<Returned(item, output)>>, raw |-> <<output>>,
             draws |-> 2, lookups |-> 0]

\* Variant: the generator is looked up again on every access.
getitem_reload(self, item) ==
    IF ~(item < self.iterator_len)
    THEN [raised |-> "AssertionError", self |-> self, ret |-> <<>>, raw |-> <<>>,
          draws |-> 0, lookups |-> 0]
    ELSE LET reloaded == load_dataset(self)
             drawn == sample_observations(reloaded.dataset[1], 1, self.random_state)
             output == drawn.observations[1]
         IN [raised |-> "",
             self |-> [self EXCEPT !.random_state = drawn.random_state,
                                   !.dataset = reloaded.dataset[1]],
             ret |-> <<Returned(item, output)>>, raw |-> <<output>>,
             draws |-> 1, lookups |-> reloaded.lookups]

\* Variant: the observation is drawn before the assertion is evaluated.
getitem_draw_first(self, item) ==
    LET drawn == sample_observations(self.dataset, 1, self.random_state)
        output == drawn.observations[1]
        advanced == [self EXCEPT !.random_state = drawn.random_state]
    IN IF ~(item < self.iterator_len)
       THEN [raised |-> "AssertionError", self |-> advanced, ret |-> <<>>,
             raw |-> <<>>, draws |-> 1, lookups |-> 0]
       ELSE [raised |-> "", self |-> advanced, ret |-> <<Returned(item, output)>>,
             raw |-> <<output>>, draws |-> 1, lookups |-> 0]

\* DLIBDataset.__getitem__(self, item): the assertion, then one observation
\* drawn with the object's own random state, then HWC -> CHW.
getitem(self, item) ==
    IF ~(item < self.iterator_len)
    THEN [raised |-> "AssertionError", self |-> self, ret |-> <<>>, raw |-> <<>>,
          draws |-> 0, lookups |-> 0]
    ELSE LET drawn == sample_observations(self.dataset, 1, self.random_state)
             output == drawn.observations[1]
         IN [raised |-> "",
             self |-> [self EXCEPT !.random_state = drawn.random_state],
             ret |-> <<Returned(item, output)>>,
             raw |-> <<output>>,
             draws |-> 1, lookups |-> 0]

\* ------------------------------------------------------------------ operations

NoCounters == [inits |-> 0, lookups |-> 0, draws |-> 0, rejected |-> 0]

\* The record of an operation: which one, on which object (and worker), with
\* which index, the exception it raised ("" for none), the integer it
\* returned (len) and the raw observation it drew (__getitem__).
Last(op, c, w, item, raised, value, raw) ==
    [op |-> op, cid |-> c, worker |-> w, item |-> item, raised |-> raised,
     value |-> value, raw |-> raw]

Init ==
    /\ environ \in {ImportModule(e) : e \in
            {<<>>} \cup {[k \in {"AICROWD_DATASET_NAME"} |-> v] : v \in EnvNames}}
    /\ ds = [c \in Cids |-> <<>>]
    /\ call = [c \in Cids |-> <<>>]
    /\ counters = [c \in Cids |-> NoCounters]
    /\ out = [c \in Cids |-> <<>>]
    /\ loader = [c \in Cids |-> <<>>]
    /\ workers = [c \in Cids |-> <<>>]
    /\ last = Last("import", 0, 0, 0, "", 0, <<>>)

\* The construction shared by get_dataset and get_loader: the name is resolved
\* and one DLIBDataset is constructed.
Construct(c, via, name, seed, iterator_len, num_workers) ==
    LET resolved == ResolveName(name, environ)
        made == init(resolved, seed, iterator_len)
    IN /\ call[c] = <<>>
       /\ call' = [call EXCEPT ![c] = <<[via |-> via, explicit |-> name, name |-> resolved,
                                         seed |-> seed, iterator_len |-> iterator_len,
                                         num_workers |-> num_workers]>>]
       /\ ds' = [ds EXCEPT ![c] = made.self]
       /\ counters' = [counters EXCEPT ![c].inits = @ + 1,
                                       ![c].lookups = @ + made.lookups]
       /\ loader' = [loader EXCEPT ![c] =
                        IF via = "get_loader" /\ made.raised = ""
                        THEN <<[dataset |-> c, batch_size |-> DefaultBatchSize,
                                shuffle |-> TRUE, num_workers |-> num_workers]>>
                        ELSE <<>>]
       /\ last' = Last(via, c, 0, 0, made.raised, 0, <<>>)
       /\ UNCHANGED <<environ, out, workers>>

\* get_dataset(name, seed, iterator_len), its result kept as object c.
GetDataset(c, name, seed, iterator_len) ==
    Construct(c, "get_dataset", name, seed, iterator_len, 0)

\* get_loader(name, batch_size, seed, iterator_len, num_workers), the dataset
\* it constructs kept as object c.
GetLoader(c, name, seed, iterator_len, num_workers) ==
    Construct(c, "get_loader", name, seed, iterator_len, num_workers)

\* len(dataset) in the process that constructed object c.
LenCall(c) ==
    /\ ds[c] # <<>>
    /\ last' = Last("len", c, 0, 0, "", len(Obj(c)), <<>>)
    /\ UNCHANGED <<environ, ds, call, counters, out, loader, workers>>

\* Number of __getitem__ calls made so far on object c and on its copies.
Fetched(c) ==
    LET RECURSIVE Sum(_)
        Sum(n) == IF n = 0 THEN 0 ELSE Len(workers[c][n].out) + Sum(n - 1)
    IN Len(out[c]) + counters[c].rejected + Sum(Len(workers[c]))

\* dataset[item] in the process that constructed object c (a direct call, or
\* a fetch of the loader when num_workers = 0).
GetItem(c, item) ==
    /\ ds[c] # <<>>
    /\ Fetched(c) < MaxGets
    /\ LET r == getitem(Obj(c), item)
       IN /\ ds' = [ds EXCEPT ![c] = <<r.self>>]
          /\ out' = [out EXCEPT ![c] = @ \o r.ret]
          /\ counters' = [counters EXCEPT
                ![c].draws = @ + r.draws,
                ![c].lookups = @ + r.lookups,
                ![c].rejected = @ + (IF r.raised = "" THEN 0 ELSE 1)]
          /\ last' = Last("getitem", c, 0, item, r.raised, 0, r.raw)
    /\ UNCHANGED <<environ, call, loader, workers>>

\* iter(loader) with num_workers > 0: every worker process starts with its
\* own copy of the dataset object as it is in the parent at that moment.
Iter(c) ==
    /\ loader[c] # <<>>
    /\ loader[c][1].num_workers > 0
    /\ workers[c] = <<>>
    /\ workers' = [workers EXCEPT ![c] =
            [w \in 1..loader[c][1].num_workers |->
                [self |-> Obj(c), forked |-> Obj(c), out |-> <<>>, draws |-> 0]]]
    /\ last' = Last("iter", c, 0, 0, "", 0, <<>>)
    /\ UNCHANGED <<environ, ds, call, counters, out, loader>>

\* Variant: the workers are threads of the parent and fetch from the
\* parent's object.
WorkerGetItemShared(c, w, item) ==
    /\ w \in 1..Len(workers[c])
    /\ item \in 0..(len(Obj(c)) - 1)
    /\ Fetched(c) < MaxGets
    /\ LET r == getitem(Obj(c), item)
       IN /\ ds' = [ds EXCEPT ![c] = <<r.self>>]
          /\ workers' = [workers EXCEPT ![c][w] =
                [@ EXCEPT !.self = r.self, !.out = @ \o r.ret, !.draws = @ + r.draws]]
          /\ last' = Last("worker_getitem", c, w, item, r.raised, 0, r.raw)
    /\ UNCHANGED <<environ, call, counters, out, loader>>

\* Worker w of loader c fetches dataset[item] from its own copy; the sampler
\* hands out indices of range(len(dataset)) only.
WorkerGetItem(c, w, item) ==
    /\ w \in 1..Len(workers[c])
    /\ item \in 0..(len(workers[c][w].self) - 1)
    /\ Fetched(c) < MaxGets
    /\ LET r == getitem(workers[c][w].self, item)
       IN /\ workers' = [workers EXCEPT ![c][w] =
                [@ EXCEPT !.self = r.self, !.out = @ \o r.ret, !.draws = @ + r.draws]]
          /\ last' = Last("worker_getitem", c, w, item, r.raised, 0, r.raw)
    /\ UNCHANGED <<environ, ds, call, counters, out, loader>>

\* ------------------------------------------------------------------ specifications

\* One container in one process: constructed by either factory, then used.
Next ==
    \/ \E name \in NameArgs, seed \in Seeds, iterator_len \in IteratorLens :
          GetDataset(1, name, seed, iterator_len)
    \/ \E name \in NameArgs, seed \in Seeds, iterator_len \in IteratorLens :
          GetLoader(1, name, seed, iterator_len, 0)
    \/ LenCall(1)
    \/ \E item \in Items : GetItem(1, item)

Spec == Init /\ [][Next]_vars

\* Two containers constructed independently in one process.
InitPair == Init /\ environ = ImportModule(<<>>)

NextPair ==
    \/ \E c \in Cids, name \in PairNames, seed \in Seeds, iterator_len \in PairLens :
          GetDataset(c, Some(name), seed, iterator_len)
    \/ \E c \in Cids, item \in PairItems : GetItem(c, item)

SpecPair == InitPair /\ [][NextPair]_vars

\* One loader with worker processes.
NextWorkers ==
    \/ \E name \in NameArgs, seed \in Seeds, iterator_len \in WorkerLens,
          num_workers \in 0..MaxWorkers :
          GetLoader(1, name, seed, iterator_len, num_workers)
    \/ Iter(1)
    \/ \E w \in 1..MaxWorkers, item \in WorkerItems : WorkerGetItem(1, w, item)
    \/ \E item \in WorkerItems : GetItem(1, item)

SpecWorkers == Init /\ [][NextWorkers]_vars

\* ------------------------------------------------------------------ properties

Min(a, b) == IF a < b THEN a ELSE b

Constructed(c) == ds[c] # <<>>

\* The sample of the k-th draw (k = 1, 2, ...) of the stream an object was
\* seeded with.
StreamSample(self, k) ==
    from_numpy(moveaxis(Observation(self.dataset, [seed |-> self.seed, pos |-> k - 1]), 2, 0))

\* The log a dataset object produces when it alone is fetched from with the
\* given indices.
RECURSIVE SoloRun(_, _)
SoloRun(self, items) ==
    IF items = <<>>
    THEN [self |-> self, out |-> <<>>]
    ELSE LET r == getitem(self, Head(items))
             rest == SoloRun(r.self, Tail(items))
         IN [self |-> rest.self, out |-> r.ret \o rest.out]

ItemsOf(log) == [k \in 1..Len(log) |-> log[k].item]

\* C1: two containers constructed independently with the same (name, seed)
\* return the same sample at every position of their sequences of successful
\* __getitem__ calls, whatever indices each was called with.
C1_SameSeedSameSequence ==
    \A a \in Cids, b \in Cids :
        (Constructed(a) /\ Constructed(b)
            /\ Obj(a).name = Obj(b).name /\ Obj(a).seed = Obj(b).seed)
        => \A k \in 1..Min(Len(out[a]), Len(out[b])) :
               out[a][k].sample = out[b][k].sample

\* C1 witness: two containers with the same name and seed have each returned
\* two samples, for index sequences that differ at both positions.
C1_Witness ==
    /\ Constructed(1) /\ Constructed(2)
    /\ Obj(1).name = Obj(2).name /\ Obj(1).seed = Obj(2).seed
    /\ Len(out[1]) = 2 /\ Len(out[2]) = 2
    /\ out[1][1].item # out[2][1].item
    /\ out[1][2].item # out[2][2].item

\* C2: after n successful __getitem__ calls exactly n observations have been
\* drawn and the object's random state stands n draws into the stream of its
\* seed, whatever the indices were.
C2_OneDrawPerGet ==
    \A c \in Cids : Constructed(c) =>
        /\ counters[c].draws = Len(out[c])
        /\ Obj(c).random_state = [seed |-> Obj(c).seed, pos |-> Len(out[c])]

\* C2 witness: an object has served MaxGets successful calls with at least two
\* different indices, one of them negative.
C2_Witness ==
    /\ Constructed(1)
    /\ Len(out[1]) = MaxGets
    /\ \E j \in 1..MaxGets, k \in 1..MaxGets :
          out[1][j].item < 0 /\ out[1][k].item > 0

\* C3 (as stated): on a container of positive length, a __getitem__ with an
\* index below 0 or not below iterator_len raises and returns no sample.
C3_OutOfRangeRaises ==
    (last.op = "getitem" /\ Constructed(last.cid)
        /\ Obj(last.cid).iterator_len > 0
        /\ (last.item < 0 \/ last.item >= Obj(last.cid).iterator_len))
    => (last.raised = "AssertionError" /\ last.raw = <<>>)

\* C4 (as stated): a construction with iterator_len <= 0 produces no container
\* and never reaches the registry lookup.
C4_NonPositiveLengthRejected ==
    \A c \in Cids :
        (call[c] # <<>> /\ call[c][1].iterator_len <= 0)
        => (~Constructed(c) /\ counters[c].lookups = 0)

\* C5: for a container constructed with a positive iterator_len, __len__
\* returns that value in every reachable state, after any successful or
\* rejected __getitem__ calls.
C5_LengthFixed ==
    \A c \in Cids :
        (Constructed(c) /\ call[c][1].iterator_len > 0)
        => /\ len(Obj(c)) = call[c][1].iterator_len
           /\ (last.op = "len" /\ last.cid = c) => last.value = call[c][1].iterator_len

\* C5 witness: __len__ has just returned on a container of positive length
\* that has served a successful and a rejected __getitem__.
C5_Witness ==
    /\ last.op = "len" /\ last.cid = 1
    /\ call[1][1].iterator_len > 0
    /\ Len(out[1]) >= 1 /\ counters[1].rejected >= 1

\* C6 (as stated): the resolved name is the explicit name when it is given and
\* non-empty, else AICROWD_DATASET_NAME when it is set and non-empty, else
\* "cars3d".
C6_ResolutionSkipsEmpty ==
    \A c \in Cids : call[c] # <<>> =>
        call[c][1].name =
            IF call[c][1].explicit # None /\ call[c][1].explicit[1] # ""
            THEN call[c][1].explicit[1]
            ELSE IF "AICROWD_DATASET_NAME" \in DOMAIN environ
                    /\ environ["AICROWD_DATASET_NAME"] # ""
                 THEN environ["AICROWD_DATASET_NAME"]
                 ELSE "cars3d"

\* C6 (amended): the resolved name is the explicit name whenever one is given
\* (the empty string included), else AICROWD_DATASET_NAME whenever it is set
\* (to the empty string included), else "cars3d".
C6_Resolution ==
    \A c \in Cids : call[c] # <<>> =>
        call[c][1].name =
            IF call[c][1].explicit # None
            THEN call[c][1].explicit[1]
            ELSE IF "AICROWD_DATASET_NAME" \in DOMAIN environ
                 THEN environ["AICROWD_DATASET_NAME"]
                 ELSE "cars3d"

\* C6 witness: a factory was called without a name while AICROWD_DATASET_NAME
\* was set to the empty string, and resolved the name to the empty string.
C6_Witness ==
    /\ call[1] # <<>>
    /\ call[1][1].explicit = None
    /\ "AICROWD_DATASET_NAME" \in DOMAIN environ
    /\ environ["AICROWD_DATASET_NAME"] = ""
    /\ call[1][1].name = ""

\* C7: for an index in [0, iterator_len) the returned sample has shape
\* channels x height x width, its element [c][h][w] is element [h][w][c] of
\* the raw observation, and moving the first axis back to the end gives the
\* raw observation.
C7_AxisPermutation ==
    (last.op = "getitem" /\ last.raised = ""
        /\ last.item >= 0 /\ last.item < Obj(last.cid).iterator_len)
    => LET raw == last.raw[1]
           sample == out[last.cid][Len(out[last.cid])].sample
       IN /\ Shape(raw) = <<Height, Width, Channels>>
          /\ sample.shape = <<Channels, Height, Width>>
          /\ Shape(sample.data) = sample.shape
          /\ \A c \in 1..Channels, h \in 1..Height, w \in 1..Width :
                sample.data[c][h][w] = raw[h][w][c]
          /\ moveaxis(sample.data, 0, 2) = raw

\* C7 witness: a __getitem__ with an index inside the range has just returned.
C7_Witness ==
    /\ last.op = "getitem" /\ last.raised = "" /\ last.cid = 1
    /\ last.item >= 0 /\ last.item < Obj(1).iterator_len
    /\ last.raw # <<>>

C9_OneLookupPerContainer ==
    \A c \in Cids :
        /\ call[c] = <<>> => (counters[c].inits = 0 /\ counters[c].lookups = 0)
        /\ call[c] # <<>> => (counters[c].inits = 1 /\ counters[c].lookups = 1)

\* C9 witness: a container made by get_loader has served __getitem__ calls and
\* a __len__ call.
C9_Witness ==
    /\ Constructed(1) /\ call[1][1].via = "get_loader"
    /\ Len(out[1]) >= 2
    /\ last.op = "len"

\* Every logged sample is the sample of its position in the seeded stream.
SamplesFollowStream ==
    \A c \in Cids : Constructed(c) =>
        \A k \in 1..Len(out[c]) : out[c][k].sample = StreamSample(Obj(c), k)

\* C10: a __getitem__ rejected by the assertion changes nothing of the
\* container (object, log, draws, lookups), and the samples of the successful
\* calls are those of the seeded stream in order, however many calls were
\* rejected in between.
C10_RejectedGetIsNoOp ==
    /\ [][(last'.op = "getitem" /\ last'.raised # "")
            => (ds' = ds /\ out' = out
                /\ \A c \in Cids : /\ counters'[c].draws = counters[c].draws
                                   /\ counters'[c].lookups = counters[c].lookups)]_vars
    /\ []SamplesFollowStream

\* C10 witness: a successful __getitem__ has just returned after an earlier
\* call on the same object was rejected.
C10_Witness ==
    /\ last.op = "getitem" /\ last.raised = "" /\ last.cid = 1
    /\ counters[1].rejected >= 1
    /\ Len(out[1]) >= 1

====
